---------------------------- MODULE Spec2Model ----------------------------
(***************************************************************************)
(* Preference resolution and locale negotiation of the boilerplate's       *)
(* preference service: getPreference, updatePreference, parsePreference,   *)
(* generateDefaultPreference, detectLocale and parseAcceptLanguage.        *)
(*                                                                         *)
(* A request runs in one slot.  Its handler is cut at the awaits of the    *)
(* code (prisma.preference.findUnique, prisma.preference.upsert); what     *)
(* lies between two awaits is one action.  Strings are TLA+ strings, cut   *)
(* into characters with SubSeq, so that split, trim, toLowerCase and       *)
(* parseFloat are computed as the code computes them.                      *)
(***************************************************************************)
EXTENDS Integers, Sequences, FiniteSets, TLC

VARIABLES
    AVAILABLE_LOCALES,  \* the ordered list of supported locale codes
    DEFAULT_LOCALE,     \* the process-wide default locale
    store,              \* prisma.preference: userId -> record (or NoRecord)
    jar,                \* the preference cookie the client holds
    reqs,               \* slot -> the request running in it (or Idle)
    negotiation         \* a run of generateDefaultPreference on its own

vars == <<AVAILABLE_LOCALES, DEFAULT_LOCALE, store, jar, reqs, negotiation>>

-----------------------------------------------------------------------------
(* Strings *)

CharAt(s, i) == SubSeq(s, i, i)

LowerChars == "abcdefghijklmnopqrstuvwxyz"
UpperChars == "ABCDEFGHIJKLMNOPQRSTUVWXYZ"
DigitChars == "0123456789"

CharsOf(chars) == {CharAt(chars, i) : i \in 1..Len(chars)}
LowerSet == CharsOf(LowerChars)
UpperSet == CharsOf(UpperChars)
DigitSet == CharsOf(DigitChars)

IsAlpha(c) == c \in LowerSet \/ c \in UpperSet
IsDigit(c) == c \in DigitSet
IsSpace(c) == c = " " \/ c = "\t"

DigitValues == [c \in DigitSet |-> (CHOOSE i \in 1..10 : CharAt(DigitChars, i) = c) - 1]
DigitValue(c) == DigitValues[c]

\* String.prototype.toLowerCase, one character
LowerOfUpper ==
    [c \in UpperSet |-> CharAt(LowerChars, CHOOSE i \in 1..26 : CharAt(UpperChars, i) = c)]
LowerChar(c) == IF c \in UpperSet THEN LowerOfUpper[c] ELSE c

RECURSIVE toLowerCase(_)
toLowerCase(s) ==
    IF s = "" THEN "" ELSE LowerChar(CharAt(s, 1)) \o toLowerCase(Tail(s))

\* String.prototype.trim
RECURSIVE trimStart(_)
trimStart(s) ==
    IF s # "" /\ IsSpace(CharAt(s, 1)) THEN trimStart(Tail(s)) ELSE s

RECURSIVE trimEnd(_)
trimEnd(s) ==
    IF s # "" /\ IsSpace(CharAt(s, Len(s)))
    THEN trimEnd(SubSeq(s, 1, Len(s) - 1))
    ELSE s

trim(s) == trimEnd(trimStart(s))

\* The first position at or after `from` where sep occurs in s, or 0
IndexOf(s, sep, from) ==
    LET hits == {i \in from..(Len(s) - Len(sep) + 1) :
                    SubSeq(s, i, i + Len(sep) - 1) = sep}
    IN  IF hits = {} THEN 0 ELSE CHOOSE i \in hits : \A j \in hits : i <= j

\* String.prototype.split with a non-empty separator
RECURSIVE split(_, _)
split(s, sep) ==
    LET i == IndexOf(s, sep, 1)
    IN  IF i = 0
        THEN <<s>>
        ELSE <<SubSeq(s, 1, i - 1)>> \o split(SubSeq(s, i + Len(sep), Len(s)), sep)

-----------------------------------------------------------------------------
(* Numbers: a quality is NaN or a number, kept in thousandths *)

NaN == [nan |-> TRUE, milli |-> 0]
Num(m) == [nan |-> FALSE, milli |-> m]

RECURSIVE DigitsLen(_)
DigitsLen(s) ==
    IF s # "" /\ IsDigit(CharAt(s, 1)) THEN 1 + DigitsLen(Tail(s)) ELSE 0

RECURSIVE DigitsValue(_)
DigitsValue(s) ==
    IF s = "" THEN 0
    ELSE DigitsValue(SubSeq(s, 1, Len(s) - 1)) * 10 + DigitValue(CharAt(s, Len(s)))

\* The thousandths a fraction's digits stand for (digits past the third dropped)
FractionMilli(d) ==
    LET d3 == SubSeq(d, 1, IF Len(d) < 3 THEN Len(d) ELSE 3)
    IN  CASE Len(d3) = 0 -> 0
          [] Len(d3) = 1 -> DigitsValue(d3) * 100
          [] Len(d3) = 2 -> DigitsValue(d3) * 10
          [] OTHER       -> DigitsValue(d3)

\* parseFloat: leading white space skipped, then the longest prefix that is
\* a decimal literal (sign, digits, fraction); NaN when there is none
parseFloat(text) ==
    LET s0   == trimStart(text)
        neg  == s0 # "" /\ CharAt(s0, 1) = "-"
        s1   == IF s0 # "" /\ CharAt(s0, 1) \in {"-", "+"} THEN Tail(s0) ELSE s0
        n    == DigitsLen(s1)
        rest == SubSeq(s1, n + 1, Len(s1))
        dot  == rest # "" /\ CharAt(rest, 1) = "."
        f    == IF dot THEN DigitsLen(Tail(rest)) ELSE 0
        mag  == DigitsValue(SubSeq(s1, 1, n)) * 1000
                + (IF dot THEN FractionMilli(SubSeq(rest, 2, f + 1)) ELSE 0)
    IN  IF n = 0 /\ f = 0 THEN NaN
        ELSE Num(IF neg THEN 0 - mag ELSE mag)

-----------------------------------------------------------------------------
(* JavaScript values: undefined, null, strings, numbers, plain objects *)

undefined == [t |-> "undefined"]
null == [t |-> "null"]
JString(s) == [t |-> "string", v |-> s]
JNumber(s) == [t |-> "number", v |-> s]
JObject(fields) == [t |-> "object", f |-> fields]

\* typeof x === 'object' (true of null)
TypeofObject(x) == x.t \in {"object", "null"}

\* !x for a value that is a string or undefined
Falsy(x) == x.t = "undefined" \/ (x.t = "string" /\ x.v = "")

-----------------------------------------------------------------------------
(* Accept-Language parser *)

\* What one comma-separated entry maps to: its tag and its quality
ParsedLanguage(lang) ==
    LET parts         == split(trim(lang), ";q=")
        languageValue == parts[1]
        qualityValue  == IF Len(parts) >= 2 THEN parts[2] ELSE ""
    IN  [language |-> toLowerCase(trim(languageValue)),
         quality  |-> IF qualityValue # "" THEN parseFloat(qualityValue) ELSE Num(1000)]

\* Mutant: an entry is placed before the entries of equal quality
RECURSIVE InsertByQualityUnstable(_, _)
InsertByQualityUnstable(sorted, e) ==
    IF sorted = <<>> THEN <<e>>
    ELSE IF Head(sorted).quality.milli > e.quality.milli
         THEN <<Head(sorted)>> \o InsertByQualityUnstable(Tail(sorted), e)
         ELSE <<e>> \o sorted

\* Array.prototype.sort with (a, b) => b.quality - a.quality on numbers:
\* stable, descending
RECURSIVE InsertByQuality(_, _)
InsertByQuality(sorted, e) ==
    IF sorted = <<>> THEN <<e>>
    ELSE IF Head(sorted).quality.milli >= e.quality.milli
         THEN <<Head(sorted)>> \o InsertByQuality(Tail(sorted), e)
         ELSE <<e>> \o sorted

RECURSIVE SortByQuality(_)
SortByQuality(entries) ==
    IF entries = <<>> THEN <<>>
    ELSE InsertByQuality(SortByQuality(SubSeq(entries, 1, Len(entries) - 1)),
                         entries[Len(entries)])

Reorderings(entries) ==
    LET n == Len(entries)
    IN  {[i \in 1..n |-> entries[p[i]]] :
            p \in {q \in [1..n -> 1..n] : \A i, j \in 1..n : q[i] = q[j] => i = j}}

\* The orders sort may leave the entries in.  With a NaN quality the
\* comparator returns NaN, it is no consistent comparator and the order is
\* implementation-defined: any permutation.
SortOutcomes(entries) ==
    IF \E i \in 1..Len(entries) : entries[i].quality.nan
    THEN Reorderings(entries)
    ELSE {SortByQuality(entries)}

\* parseAcceptLanguage: the set of tag lists it may return
parseAcceptLanguage(acceptLanguageHeader) ==
    IF Falsy(acceptLanguageHeader) THEN {<<>>}
    ELSE LET languages       == split(acceptLanguageHeader.v, ",")
             parsedLanguages == [i \in 1..Len(languages) |-> ParsedLanguage(languages[i])]
         IN  {[i \in 1..Len(sorted) |-> sorted[i].language] :
                 sorted \in SortOutcomes(parsedLanguages)}

-----------------------------------------------------------------------------
(* Locale detector *)

NoLocale == "<undefined>"
RangeError == "<RangeError>"

IsAlnum(c) == IsAlpha(c) \/ IsDigit(c)
AllAlpha(s) == \A i \in 1..Len(s) : IsAlpha(CharAt(s, i))
AllAlnum(s) == \A i \in 1..Len(s) : IsAlnum(CharAt(s, i))

\* new Intl.Locale(tag) throws a RangeError unless tag is a structurally
\* valid language tag: a language subtag of 2-3 or 5-8 letters, then
\* subtags of 1-8 letters and digits, joined by "-"
IntlLocaleValid(tag) ==
    LET subtags == split(tag, "-")
    IN  /\ Len(subtags[1]) \in {2, 3, 5, 6, 7, 8}
        /\ AllAlpha(subtags[1])
        /\ \A i \in 2..Len(subtags) :
              Len(subtags[i]) \in 1..8 /\ AllAlnum(subtags[i])

\* new Intl.Locale(tag).language
IntlLocaleLanguage(tag) == toLowerCase(split(tag, "-")[1])

isLocale(x) == \E i \in 1..Len(AVAILABLE_LOCALES) : AVAILABLE_LOCALES[i] = x

\* AVAILABLE_LOCALES.filter(lang => new Intl.Locale(lang).language === base)
supportedRegionsLanguage(baseLanguage) ==
    SelectSeq(AVAILABLE_LOCALES, LAMBDA lang : IntlLocaleLanguage(lang) = baseLanguage)

\* detectLocale: a locale, NoLocale (it returns undefined) or RangeError
\* (new Intl.Locale threw)
RECURSIVE detectLocale(_)
detectLocale(acceptLanguages) ==
    IF acceptLanguages = <<>> THEN NoLocale
    ELSE LET acceptLanguage == Head(acceptLanguages)
             baseLanguage   == IntlLocaleLanguage(acceptLanguage)
             regions        == supportedRegionsLanguage(baseLanguage)
         IN  IF isLocale(acceptLanguage) THEN acceptLanguage
             ELSE IF ~IntlLocaleValid(acceptLanguage) THEN RangeError
             ELSE IF isLocale(baseLanguage) THEN baseLanguage
             ELSE IF Len(regions) > 0 THEN regions[1]
             ELSE detectLocale(Tail(acceptLanguages))

-----------------------------------------------------------------------------
(* Preference codec *)

Return(v) == [threw |-> FALSE, value |-> v]
Throw(e) == [threw |-> TRUE, value |-> JString(e)]

\* generateDefaultPreference: the set of its outcomes for a header
generateDefaultPreference(acceptLanguageHeader) ==
    {LET dectectedLocale == detectLocale(acceptLanguages)
     IN  IF dectectedLocale = RangeError THEN Throw(RangeError)
         ELSE Return([locale |-> IF dectectedLocale = NoLocale
                                 THEN DEFAULT_LOCALE
                                 ELSE dectectedLocale]) :
        acceptLanguages \in parseAcceptLanguage(acceptLanguageHeader)}

RecognisedFields == {"locale"}

\* A recognised field's value conforms: locale is one of the supported codes
FieldConforms(k, x) == k = "locale" /\ x.t = "string" /\ isLocale(x.v)

\* preferenceSchema.safeParse(data).success
preferenceSchemaSuccess(data) ==
    /\ data.t = "object"
    /\ DOMAIN data.f = RecognisedFields
    /\ \A k \in DOMAIN data.f : FieldConforms(k, data.f[k])

\* preferenceSchema.partial().safeParse(data).success
preferenceSchemaPartialSuccess(data) ==
    /\ data.t = "object"
    /\ DOMAIN data.f \subseteq RecognisedFields
    /\ \A k \in DOMAIN data.f : FieldConforms(k, data.f[k])

\* The typed value of a conforming object: field -> string
SchemaData(data) == [k \in DOMAIN data.f |-> data.f[k].v]

\* JSON.stringify then JSON.parse of a typed value
ToJSON(preference) == JObject([k \in DOMAIN preference |-> JString(preference[k])])

\* Mutant: the schema is not applied
ParsePreferenceUnchecked(data) ==
    IF data.t # "object" THEN undefined ELSE SchemaData(data)

parsePreference(data) ==
    IF data = null \/ data = undefined THEN undefined
    ELSE IF preferenceSchemaSuccess(data) THEN SchemaData(data) ELSE undefined

-----------------------------------------------------------------------------
(* The world of a run: configuration, users, payloads, headers, inputs *)

NumUsers == 1

Anonymous == 0
Users == 1..NumUsers

\* context.auth.isAuthenticated
isAuthenticated(auth) == auth # Anonymous

\* The supported-locale list and the default locale, fixed at process start
LocaleConfigs ==
    {[locales |-> <<"en", "fr">>, default |-> "fr"],
     [locales |-> <<"en", "pt-BR", "pt-PT">>, default |-> "en"]}

\* Payloads a cookie or a stored record may hold
LocalePayload(l) == JObject([locale |-> JString(l)])

\* getCookieJSON's results: no cookie, null, objects
CookiePayloads == {undefined, null} \cup {LocalePayload(l) : l \in {"en", "fr", "pt-BR", "xx"}}

\* A stored record: findUnique's null, or a row with its Json data
Row(data) == [t |-> "row", data |-> data]
StoreRecords ==
    {null} \cup
    {Row(d) : d \in {JString("en"), null} \cup {LocalePayload(l) : l \in {"en", "fr", "xx"}}}

\* getHeader('Accept-Language')
Headers ==
    {undefined} \cup
    {JString(h) : h \in {"", "*", "en-GB", "pt-PT, *;q=0.1", "de;q=x, fr"}}

\* Bodies posted to updatePreference
Inputs ==
    {JObject(<<>>), JObject([locale |-> JNumber("42")])} \cup
    {LocalePayload(l) : l \in {"en", "fr", "xx"}}

Slots == {1}

-----------------------------------------------------------------------------
(* Requests *)

Idle ==
    [pc |-> "idle", kind |-> "none", auth |-> Anonymous,
     cookie |-> undefined, header |-> undefined, input |-> undefined,
     data |-> undefined, preferenceDatabase |-> undefined,
     preference |-> undefined, preferenceUpdated |-> undefined,
     cookieWrites |-> <<>>, storeReads |-> 0, storeWrites |-> 0,
     result |-> undefined, error |-> "",
     storeBefore |-> undefined]   \* history: the store when the request began

\* No run of generateDefaultPreference on its own
NoNegotiation ==
    [pc |-> "idle", entries |-> <<>>, acceptLanguageHeader |-> undefined,
     acceptLanguages |-> <<>>, dectectedLocale |-> NoLocale,
     result |-> undefined, error |-> ""]

Init ==
    /\ \E c \in LocaleConfigs :
          AVAILABLE_LOCALES = c.locales /\ DEFAULT_LOCALE = c.default
    /\ store \in [Users -> StoreRecords]
    /\ jar = undefined
    /\ reqs = [s \in Slots |-> Idle]
    /\ negotiation = NoNegotiation

\* Mutant: the store is consulted whoever calls
GetPreferenceEntryAlwaysLookup(auth) == "findUnique"

\* The first step of the getPreference handler for this caller (line 22)
GetPreferenceEntry(auth) == IF isAuthenticated(auth) THEN "findUnique" ELSE "resolve"

\* GET: middleware, then the getPreference handler
StartGet(s) ==
    /\ reqs[s].pc = "idle"
    /\ \E auth \in {Anonymous} \cup Users, cookie \in CookiePayloads \cup {jar},
          header \in Headers :
          reqs' = [reqs EXCEPT ![s] =
                      [Idle EXCEPT !.pc = GetPreferenceEntry(auth), !.kind = "get",
                                   !.auth = auth, !.cookie = cookie,
                                   !.header = header, !.storeBefore = store]]
    /\ UNCHANGED <<AVAILABLE_LOCALES, DEFAULT_LOCALE, negotiation, store, jar>>

\* POST: middleware, then the validator, then the updatePreference handler
StartUpdate(s) ==
    /\ reqs[s].pc = "idle"
    /\ \E auth \in {Anonymous} \cup Users, cookie \in CookiePayloads \cup {jar},
          header \in Headers, input \in Inputs :
          reqs' = [reqs EXCEPT ![s] =
                      [Idle EXCEPT !.pc = "validator", !.kind = "update",
                                   !.auth = auth, !.cookie = cookie,
                                   !.header = header, !.input = input,
                                   !.storeBefore = store]]
    /\ UNCHANGED <<AVAILABLE_LOCALES, DEFAULT_LOCALE, negotiation, store, jar>>

\* Mutant: no validator, the handler runs on the body as posted
ValidatorUnchecked(s) ==
    LET r == reqs[s]
    IN  /\ r.pc = "validator"
        /\ reqs' = [reqs EXCEPT ![s] =
              [r EXCEPT !.pc = GetPreferenceEntry(r.auth),
                        !.data = SchemaData(r.input)]]
        /\ UNCHANGED <<AVAILABLE_LOCALES, DEFAULT_LOCALE, negotiation, store, jar>>

\* .validator(zodValidator(preferenceSchema.partial())): the handler runs
\* only on validated data
Validator(s) ==
    LET r == reqs[s]
    IN  /\ r.pc = "validator"
        /\ reqs' = [reqs EXCEPT ![s] =
              IF preferenceSchemaPartialSuccess(r.input)
              THEN [r EXCEPT !.pc = GetPreferenceEntry(r.auth),
                             !.data = SchemaData(r.input)]
              ELSE [r EXCEPT !.pc = "threw", !.error = "validation"]]
        /\ UNCHANGED <<AVAILABLE_LOCALES, DEFAULT_LOCALE, negotiation, store, jar>>

\* await prisma.preference.findUnique({ where: { userId } })
FindUnique(s) ==
    LET r == reqs[s]
    IN  /\ r.pc = "findUnique"
        /\ reqs' = [reqs EXCEPT ![s] =
              [r EXCEPT !.pc = "resolve",
                        !.storeReads = @ + 1,
                        !.preferenceDatabase =
                            IF r.auth \in DOMAIN store THEN store[r.auth] ELSE null]]
        /\ UNCHANGED <<AVAILABLE_LOCALES, DEFAULT_LOCALE, negotiation, store, jar>>

\* Mutant: the rejection is caught and the lookup counts as "no record"
FindUniqueFailsSwallowed(s) ==
    LET r == reqs[s]
    IN  /\ r.pc = "findUnique"
        /\ reqs' = [reqs EXCEPT ![s] =
              [r EXCEPT !.pc = "resolve", !.error = "store", !.storeReads = @ + 1,
                        !.preferenceDatabase = null]]
        /\ UNCHANGED <<AVAILABLE_LOCALES, DEFAULT_LOCALE, negotiation, store, jar>>

\* findUnique rejects (the store is unreachable): the handler throws
FindUniqueFails(s) ==
    LET r == reqs[s]
    IN  /\ r.pc = "findUnique"
        /\ reqs' = [reqs EXCEPT ![s] =
              [r EXCEPT !.pc = "threw", !.error = "store", !.storeReads = @ + 1]]
        /\ UNCHANGED <<AVAILABLE_LOCALES, DEFAULT_LOCALE, negotiation, store, jar>>

\* Mutant: the cookie is tried before the stored value
PreferenceFromSourcesCookieFirst(auth, preferenceDatabase, cookie) ==
    IF parsePreference(cookie) # undefined THEN parsePreference(cookie)
    ELSE IF /\ isAuthenticated(auth)
            /\ preferenceDatabase # null
            /\ preferenceDatabase # undefined
            /\ TypeofObject(preferenceDatabase.data)
         THEN parsePreference(preferenceDatabase.data)
         ELSE undefined

\* Mutant: step 1.3 is missing, an authenticated caller's cookie is not read
PreferenceFromSourcesNoFallback(auth, preferenceDatabase, cookie) ==
    IF isAuthenticated(auth)
    THEN IF /\ preferenceDatabase # null
            /\ preferenceDatabase # undefined
            /\ TypeofObject(preferenceDatabase.data)
         THEN parsePreference(preferenceDatabase.data)
         ELSE undefined
    ELSE parsePreference(cookie)

\* getPreference, steps 1.2 to 2: the stored value if it parses, else the
\* cookie's
PreferenceFromSources(auth, preferenceDatabase, cookie) ==
    LET fromDatabase ==
            IF /\ isAuthenticated(auth)
               /\ preferenceDatabase # null
               /\ preferenceDatabase # undefined
               /\ TypeofObject(preferenceDatabase.data)
            THEN parsePreference(preferenceDatabase.data)
            ELSE undefined
    IN  IF fromDatabase # undefined THEN fromDatabase ELSE parsePreference(cookie)

\* Mutant: a header that is sent is used before the stored value and the cookie
ResolveOutcomesHeaderFirst(auth, preferenceDatabase, cookie, header) ==
    LET preference == PreferenceFromSources(auth, preferenceDatabase, cookie)
    IN  IF preference # undefined /\ Falsy(header) THEN {Return(preference)}
        ELSE generateDefaultPreference(header)

\* getPreference, steps 1.2 to 3: the outcomes of the resolution
ResolveOutcomes(auth, preferenceDatabase, cookie, header) ==
    LET preference == PreferenceFromSources(auth, preferenceDatabase, cookie)
    IN  IF preference # undefined THEN {Return(preference)}
        ELSE generateDefaultPreference(header)

\* Mutant: getPreference persists what it resolved
ResolveWriteBack(s) ==
    LET r == reqs[s]
    IN  /\ r.pc = "resolve"
        /\ \E o \in ResolveOutcomes(r.auth, r.preferenceDatabase, r.cookie, r.header) :
              /\ reqs' = [reqs EXCEPT ![s] =
                    IF o.threw
                    THEN [r EXCEPT !.pc = "threw", !.error = o.value.v]
                    ELSE IF r.kind = "get"
                    THEN [r EXCEPT !.pc = "returned",
                                   !.preference = o.value,
                                   !.cookieWrites = Append(@, ToJSON(o.value)),
                                   !.result = o.value]
                    ELSE [r EXCEPT !.pc = "upsert",
                                   !.preference = o.value,
                                   !.cookieWrites = Append(@, ToJSON(o.value))]]
              /\ store' = IF ~o.threw /\ r.auth \in DOMAIN store
                          THEN [store EXCEPT ![r.auth] = Row(ToJSON(o.value))]
                          ELSE store
        /\ UNCHANGED <<AVAILABLE_LOCALES, DEFAULT_LOCALE, negotiation, jar>>

\* The rest of getPreference after the lookup: resolve, setCookieJSON, return.
\* In updatePreference the returned value is the handler's `preference`.
Resolve(s) ==
    LET r == reqs[s]
    IN  /\ r.pc = "resolve"
        /\ \E o \in ResolveOutcomes(r.auth, r.preferenceDatabase, r.cookie, r.header) :
              reqs' = [reqs EXCEPT ![s] =
                 IF o.threw
                 THEN [r EXCEPT !.pc = "threw", !.error = o.value.v]
                 ELSE IF r.kind = "get"
                 THEN [r EXCEPT !.pc = "returned",
                                !.preference = o.value,
                                !.cookieWrites = Append(@, ToJSON(o.value)),
                                !.result = o.value]
                 ELSE [r EXCEPT !.pc = "upsert",
                                !.preference = o.value,
                                !.cookieWrites = Append(@, ToJSON(o.value))]]
        /\ UNCHANGED <<AVAILABLE_LOCALES, DEFAULT_LOCALE, negotiation, store, jar>>

\* Mutant: { ...data, ...preference }
MergeReversed(preference, data) ==
    [k \in DOMAIN preference \cup DOMAIN data |->
        IF k \in DOMAIN preference THEN preference[k] ELSE data[k]]

\* { ...preference, ...data }
Merge(preference, data) ==
    [k \in DOMAIN preference \cup DOMAIN data |->
        IF k \in DOMAIN data THEN data[k] ELSE preference[k]]

\* Mutant: the upsert stores the partial, not the merged value
UpsertDataPartialOnly(preference, data) == ToJSON(data)

\* Mutant: the upsert stores the resolved value, not the merged one
UpsertDataResolved(preference, data) == ToJSON(preference)

\* The data of the upsert's update and create branches
UpsertData(preference, data) == ToJSON(Merge(preference, data))

\* updatePreference, authenticated: merge, await prisma.preference.upsert
Upsert(s) ==
    LET r == reqs[s]
    IN  /\ r.pc = "upsert"
        /\ isAuthenticated(r.auth)
        /\ store' = [store EXCEPT ![r.auth] = Row(UpsertData(r.preference, r.data))]
        /\ reqs' = [reqs EXCEPT ![s] =
              [r EXCEPT !.pc = "setCookie",
                        !.preferenceUpdated = Merge(r.preference, r.data),
                        !.storeWrites = @ + 1]]
        /\ UNCHANGED <<AVAILABLE_LOCALES, DEFAULT_LOCALE, negotiation, jar>>

\* Mutant: setCookieJSON is called before the upsert is awaited
UpsertFailsAfterCookie(s) ==
    LET r == reqs[s]
    IN  /\ r.pc = "upsert"
        /\ isAuthenticated(r.auth)
        /\ reqs' = [reqs EXCEPT ![s] =
              [r EXCEPT !.pc = "threw", !.error = "store",
                        !.preferenceUpdated = Merge(r.preference, r.data),
                        !.cookieWrites = Append(@, ToJSON(Merge(r.preference, r.data))),
                        !.storeWrites = @ + 1]]
        /\ UNCHANGED <<AVAILABLE_LOCALES, DEFAULT_LOCALE, negotiation, store, jar>>

\* upsert rejects: the handler throws before it reaches setCookieJSON
UpsertFails(s) ==
    LET r == reqs[s]
    IN  /\ r.pc = "upsert"
        /\ isAuthenticated(r.auth)
        /\ reqs' = [reqs EXCEPT ![s] =
              [r EXCEPT !.pc = "threw", !.error = "store",
                        !.preferenceUpdated = Merge(r.preference, r.data),
                        !.storeWrites = @ + 1]]
        /\ UNCHANGED <<AVAILABLE_LOCALES, DEFAULT_LOCALE, negotiation, store, jar>>

\* updatePreference, anonymous: merge, no upsert
SkipUpsert(s) ==
    LET r == reqs[s]
    IN  /\ r.pc = "upsert"
        /\ ~isAuthenticated(r.auth)
        /\ reqs' = [reqs EXCEPT ![s] =
              [r EXCEPT !.pc = "setCookie",
                        !.preferenceUpdated = Merge(r.preference, r.data)]]
        /\ UNCHANGED <<AVAILABLE_LOCALES, DEFAULT_LOCALE, negotiation, store, jar>>

\* Mutant: the cookie is written with the resolved value, not the merged one
SetCookieAndReturnStale(s) ==
    LET r == reqs[s]
    IN  /\ r.pc = "setCookie"
        /\ reqs' = [reqs EXCEPT ![s] =
              [r EXCEPT !.pc = "returned",
                        !.cookieWrites = Append(@, ToJSON(r.preference)),
                        !.result = r.preferenceUpdated]]
        /\ UNCHANGED <<AVAILABLE_LOCALES, DEFAULT_LOCALE, negotiation, store, jar>>

\* updatePreference: setCookieJSON(preferenceUpdated), return preferenceUpdated
SetCookieAndReturn(s) ==
    LET r == reqs[s]
    IN  /\ r.pc = "setCookie"
        /\ reqs' = [reqs EXCEPT ![s] =
              [r EXCEPT !.pc = "returned",
                        !.cookieWrites = Append(@, ToJSON(r.preferenceUpdated)),
                        !.result = r.preferenceUpdated]]
        /\ UNCHANGED <<AVAILABLE_LOCALES, DEFAULT_LOCALE, negotiation, store, jar>>

\* The response reaches the client, which keeps the last cookie it was sent
Respond(s) ==
    LET r == reqs[s]
    IN  /\ r.pc \in {"returned", "threw"}
        /\ jar' = IF r.cookieWrites # <<>>
                  THEN r.cookieWrites[Len(r.cookieWrites)]
                  ELSE jar
        /\ reqs' = [reqs EXCEPT ![s] = Idle]
        /\ UNCHANGED <<AVAILABLE_LOCALES, DEFAULT_LOCALE, negotiation, store>>

Next ==
    \E s \in Slots :
        \/ StartGet(s)
        \/ StartUpdate(s)
        \/ Validator(s)
        \/ FindUnique(s)
        \/ FindUniqueFails(s)
        \/ Resolve(s)
        \/ Upsert(s)
        \/ UpsertFails(s)
        \/ SkipUpsert(s)
        \/ SetCookieAndReturn(s)
        \/ Respond(s)

Spec == Init /\ [][Next]_vars

-----------------------------------------------------------------------------
(* Vocabulary of the properties *)

\* The valid Preferences, and the payloads that hold one
Preferences == {[locale |-> AVAILABLE_LOCALES[i]] : i \in 1..Len(AVAILABLE_LOCALES)}
HoldsPreference(payload) == \E p \in Preferences : payload = JObject([locale |-> JString(p.locale)])
PreferenceHeld(payload) == [locale |-> payload.f.locale.v]

\* The caller's durable record when the request began holds a valid Preference
StoredRecord(r) == IF isAuthenticated(r.auth) THEN r.storeBefore[r.auth] ELSE null
HasValidRecord(r) ==
    /\ isAuthenticated(r.auth)
    /\ StoredRecord(r) # null
    /\ HoldsPreference(StoredRecord(r).data)

\* The generated defaults of a header: the detected locale, or the default
\* locale when detection yields no match
GeneratedDefaults(header) ==
    LET detected == {detectLocale(tags) : tags \in parseAcceptLanguage(header)}
    IN  {[locale |-> IF d = NoLocale THEN DEFAULT_LOCALE ELSE d] :
            d \in detected \ {RangeError}}

\* getPreference has returned in this request, as the GET handler or as the
\* first step of updatePreference; r.preference is what it returned
GetPreferenceReturned(r) == r.pc \in {"returned", "upsert", "setCookie"} \/ (r.pc = "threw" /\ r.storeWrites > 0)

\* The cookie's value if it is a valid Preference, else a generated default
CookieOrDefault(r) ==
    IF HoldsPreference(r.cookie) THEN r.preference = PreferenceHeld(r.cookie)
    ELSE r.preference \in GeneratedDefaults(r.header)

\* The posted body is a valid partial Preference
ValidPartial(input) == input = JObject(<<>>) \/ HoldsPreference(input)

-----------------------------------------------------------------------------
(* C1 *)

\* C1 (precedence law): an authenticated caller's getPreference whose durable
\* record holds a valid Preference returns exactly the stored value, whatever
\* the cookie and the Accept-Language header are.
C1_Precedence ==
    \A s \in Slots :
        LET r == reqs[s]
        IN  (GetPreferenceReturned(r) /\ HasValidRecord(r))
                => r.preference = PreferenceHeld(StoredRecord(r).data)

\* A GET has returned the stored value over a valid, different cookie
C1_Witness ==
    \E s \in Slots :
        LET r == reqs[s]
        IN  /\ r.kind = "get" /\ r.pc = "returned"
            /\ HasValidRecord(r)
            /\ HoldsPreference(r.cookie)
            /\ r.cookie # StoredRecord(r).data
            /\ r.header = JString("en-GB")
            /\ r.result = PreferenceHeld(StoredRecord(r).data)

(* C2 *)

\* C2 (fallback law): an authenticated caller with no durable record, or one
\* whose payload is not object-shaped or fails the schema, gets the cookie's
\* Preference when the cookie holds a valid one, and otherwise the generated
\* default.
C2_Fallback ==
    \A s \in Slots :
        LET r == reqs[s]
        IN  (GetPreferenceReturned(r) /\ isAuthenticated(r.auth) /\ ~HasValidRecord(r))
                => CookieOrDefault(r)

\* A GET of a user whose record fails the schema, with an invalid cookie, has
\* returned the locale detected from the header (not the default locale)
C2_Witness ==
    \E s \in Slots :
        LET r == reqs[s]
        IN  /\ r.kind = "get" /\ r.pc = "returned"
            /\ isAuthenticated(r.auth)
            /\ StoredRecord(r) = Row(JObject([locale |-> JString("xx")]))
            /\ r.cookie = null
            /\ r.header = JString("en-GB")
            /\ DEFAULT_LOCALE = "fr"
            /\ r.result = [locale |-> "en"]

(* C3 *)

\* C3 (anonymous law): an unauthenticated caller's getPreference or
\* updatePreference never reads or writes the durable store, and its
\* getPreference returns the cookie's value if valid, else a generated default.
C3_Anonymous ==
    \A s \in Slots :
        LET r == reqs[s]
        IN  (r.pc # "idle" /\ ~isAuthenticated(r.auth))
                => /\ r.storeReads = 0
                   /\ r.storeWrites = 0
                   /\ store = r.storeBefore
                   /\ GetPreferenceReturned(r) => CookieOrDefault(r)

\* An anonymous update has returned while the store holds a valid record
C3_Witness ==
    \E s \in Slots :
        LET r == reqs[s]
        IN  /\ r.kind = "update" /\ r.pc = "returned"
            /\ ~isAuthenticated(r.auth)
            /\ \E u \in Users : store[u] # null /\ HoldsPreference(store[u].data)
            /\ r.preference # r.result

(* C4 *)

\* C4 as claimed (cookie write-through): every completed getPreference and
\* updatePreference call performs exactly one cookie write, of the value it
\* returns.
C4_ExactlyOneCookieWrite ==
    \A s \in Slots :
        LET r == reqs[s]
        IN  r.pc = "returned" => r.cookieWrites = <<ToJSON(r.result)>>

\* C4 as amended: a completed getPreference call performs exactly one cookie
\* write, of the value it returns; a completed updatePreference call performs
\* exactly two, the resolve step's write of the resolved value and then the
\* write of the merged value it returns.
C4_CookieWriteThrough ==
    \A s \in Slots :
        LET r == reqs[s]
        IN  r.pc = "returned"
                => /\ r.kind = "get" => r.cookieWrites = <<ToJSON(r.result)>>
                   /\ r.kind = "update" =>
                         r.cookieWrites = <<ToJSON(r.preference), ToJSON(r.result)>>
                   /\ r.cookieWrites[Len(r.cookieWrites)] =
                         JObject([locale |-> JString(r.result.locale)])

\* An update has returned after two cookie writes of different values
C4_Witness ==
    \E s \in Slots :
        LET r == reqs[s]
        IN  /\ r.kind = "update" /\ r.pc = "returned"
            /\ Len(r.cookieWrites) = 2
            /\ r.cookieWrites[1] # r.cookieWrites[2]

(* C5 *)

\* C5 (merge law): for a valid partial, updatePreference returns what
\* getPreference returns in that state with each field of the partial
\* overwritten by the partial's value and every other field kept.
C5_Merge ==
    \A s \in Slots :
        LET r == reqs[s]
        IN  (r.kind = "update" /\ r.pc = "returned")
                => /\ ValidPartial(r.input)
                   /\ \E o \in ResolveOutcomes(r.auth, StoredRecord(r), r.cookie, r.header) :
                         /\ ~o.threw
                         /\ DOMAIN r.result = DOMAIN o.value
                         /\ \A k \in DOMAIN r.result :
                               r.result[k] = IF k \in DOMAIN r.input.f
                                             THEN r.input.f[k].v
                                             ELSE o.value[k]

\* An update has returned a partial's locale over a different resolved one
C5_Witness ==
    \E s \in Slots :
        LET r == reqs[s]
        IN  /\ r.kind = "update" /\ r.pc = "returned"
            /\ r.input = JObject([locale |-> JString("fr")])
            /\ r.preference = [locale |-> "en"]
            /\ r.result = [locale |-> "fr"]

(* C6 *)

\* C6 as claimed (idempotence of the empty update): updatePreference({})
\* returns what getPreference returns in the same state, and an authenticated
\* caller's stored record after the call equals the record before it.
C6_EmptyUpdateLeavesRecord ==
    \A s \in Slots :
        LET r == reqs[s]
        IN  (r.kind = "update" /\ r.pc = "returned" /\ r.input = JObject(<<>>))
                => /\ r.result = r.preference
                   /\ isAuthenticated(r.auth) => store[r.auth] = r.storeBefore[r.auth]

\* C6 as amended: updatePreference({}) returns what getPreference returns in
\* the same state, and an authenticated caller's upsert stores that unchanged
\* value: the stored record after the call equals the record before it when
\* that record held a valid Preference, and otherwise the record is created
\* or replaced with the resolved value.
C6_EmptyUpdate ==
    \A s \in Slots :
        LET r == reqs[s]
        IN  (r.kind = "update" /\ r.pc = "returned" /\ r.input = JObject(<<>>))
                => /\ r.result = r.preference
                   /\ Return(r.result) \in
                         ResolveOutcomes(r.auth, StoredRecord(r), r.cookie, r.header)
                   /\ isAuthenticated(r.auth) =>
                         /\ r.storeWrites = 1
                         /\ store[r.auth] =
                               Row(JObject([locale |-> JString(r.preference.locale)]))
                         /\ HasValidRecord(r) => store[r.auth] = r.storeBefore[r.auth]

\* An empty update of a user with a valid record and a different valid cookie
\* has returned and left the record as it was
C6_Witness ==
    \E s \in Slots :
        LET r == reqs[s]
        IN  /\ r.kind = "update" /\ r.pc = "returned" /\ r.input = JObject(<<>>)
            /\ HasValidRecord(r)
            /\ HoldsPreference(r.cookie) /\ r.cookie # StoredRecord(r).data
            /\ store[r.auth] = r.storeBefore[r.auth]

(* C7 *)

\* The upsert of this updatePreference call was issued and failed
UpsertFailed(r) == r.kind = "update" /\ r.pc = "threw" /\ r.storeWrites > 0

\* C7 as claimed: when the upsert fails the failure propagates and the call
\* has performed no cookie write.
C7_NoCookieWriteOnUpsertFailure ==
    \A s \in Slots :
        LET r == reqs[s]
        IN  UpsertFailed(r) => (r.error = "store" /\ r.cookieWrites = <<>>)

\* C7 as amended: when the upsert fails the failure propagates, nothing is
\* returned, the store is unchanged and the merged value is not written to the
\* cookie; the call's only cookie write is the one its resolve step made, of
\* the resolved (pre-merge) value.
C7_UpsertFailure ==
    \A s \in Slots :
        LET r == reqs[s]
        IN  UpsertFailed(r)
                => /\ r.error = "store"
                   /\ r.result = undefined
                   /\ store = r.storeBefore
                   /\ r.cookieWrites = <<JObject([locale |-> JString(r.preference.locale)])>>

\* An upsert has failed for an update whose merged value differs from the
\* resolved one
C7_Witness ==
    \E s \in Slots :
        LET r == reqs[s]
        IN  /\ UpsertFailed(r)
            /\ r.preferenceUpdated # r.preference
            /\ Len(r.cookieWrites) = 1

(* C8 *)

\* C8: an updatePreference call whose body is not a valid partial Preference
\* is rejected before any resolution work: no store read, no store write, no
\* cookie write, store unchanged.
C8_InvalidInputRejected ==
    \A s \in Slots :
        LET r == reqs[s]
        IN  (r.kind = "update" /\ ~ValidPartial(r.input))
                => /\ r.pc \in {"validator", "threw"}
                   /\ r.pc = "threw" => r.error = "validation"
                   /\ r.storeReads = 0
                   /\ r.storeWrites = 0
                   /\ r.cookieWrites = <<>>
                   /\ r.result = undefined
                   /\ store = r.storeBefore

\* An authenticated update with an unsupported locale has been rejected
C8_Witness ==
    \E s \in Slots :
        LET r == reqs[s]
        IN  /\ r.kind = "update" /\ r.pc = "threw" /\ r.error = "validation"
            /\ isAuthenticated(r.auth)
            /\ r.input = JObject([locale |-> JString("xx")])

(* C9 *)

\* C9 (schema invariant): every value getPreference or updatePreference
\* returns has a locale of the supported set, whatever the store, the cookie,
\* the header and the valid partial are.
C9_SchemaInvariant ==
    \A s \in Slots :
        LET r == reqs[s]
        IN  /\ r.pc = "returned" => r.result \in Preferences
            /\ GetPreferenceReturned(r) => r.preference \in Preferences

\* A GET has returned although the record and the cookie both fail the schema
C9_Witness ==
    \E s \in Slots :
        LET r == reqs[s]
        IN  /\ r.kind = "get" /\ r.pc = "returned"
            /\ isAuthenticated(r.auth)
            /\ StoredRecord(r) # null /\ ~HoldsPreference(StoredRecord(r).data)
            /\ r.cookie = JObject([locale |-> JString("xx")])

(* C10 *)

\* C10 (read totality): whenever the store lookup does not fail, getPreference
\* returns a Preference and never raises, whatever the cookie and the
\* Accept-Language header are.
C10_ReadTotality ==
    \A s \in Slots :
        LET r == reqs[s]
        IN  (r.kind = "get" /\ r.pc = "threw") => r.error = "store"

(* Interleaved requests *)

\* Two requests of one client are in flight at a time and carry the cookie the
\* client holds; the callers are the anonymous caller and one user, the store
\* starts with records that are absent or valid, and the bodies include one
\* the validator rejects
ConcSlots == {1, 2}
ConcCallers == {Anonymous} \cup {CHOOSE u \in Users : \A v \in Users : u <= v}
ConcStoreRecords == {null} \cup {Row(LocalePayload(l)) : l \in {"en", "fr"}}
ConcHeaders == {undefined, JString("en-GB")}
ConcInputs == {JObject(<<>>)} \cup {LocalePayload(l) : l \in {"fr", "xx"}}

InitConc ==
    /\ AVAILABLE_LOCALES = <<"en", "fr">> /\ DEFAULT_LOCALE = "fr"
    /\ store \in [Users -> ConcStoreRecords]
    /\ jar = undefined
    /\ reqs = [s \in ConcSlots |-> Idle]
    /\ negotiation = NoNegotiation

\* GET: middleware, then the getPreference handler
StartGetConc(s) ==
    /\ reqs[s].pc = "idle"
    /\ \E auth \in ConcCallers, cookie \in {jar}, header \in ConcHeaders :
          reqs' = [reqs EXCEPT ![s] =
                      [Idle EXCEPT !.pc = GetPreferenceEntry(auth), !.kind = "get",
                                   !.auth = auth, !.cookie = cookie,
                                   !.header = header, !.storeBefore = store]]
    /\ UNCHANGED <<AVAILABLE_LOCALES, DEFAULT_LOCALE, negotiation, store, jar>>

\* POST: middleware, then the validator, then the updatePreference handler
StartUpdateConc(s) ==
    /\ reqs[s].pc = "idle"
    /\ \E auth \in ConcCallers, cookie \in {jar}, header \in ConcHeaders,
          input \in ConcInputs :
          reqs' = [reqs EXCEPT ![s] =
                      [Idle EXCEPT !.pc = "validator", !.kind = "update",
                                   !.auth = auth, !.cookie = cookie,
                                   !.header = header, !.input = input,
                                   !.storeBefore = store]]
    /\ UNCHANGED <<AVAILABLE_LOCALES, DEFAULT_LOCALE, negotiation, store, jar>>

\* Every await of a handler is a point where the other request may run
NextConc ==
    \E s \in ConcSlots :
        \/ StartGetConc(s)
        \/ StartUpdateConc(s)
        \/ Validator(s)
        \/ FindUnique(s)
        \/ FindUniqueFails(s)
        \/ Resolve(s)
        \/ Upsert(s)
        \/ UpsertFails(s)
        \/ SkipUpsert(s)
        \/ SetCookieAndReturn(s)
        \/ Respond(s)

SpecConc == InitConc /\ [][NextConc]_vars

(* C12 *)

\* The values a completed getPreference may resolve
ResolvedValues(auth, record, cookie, header) ==
    {o.value : o \in {x \in ResolveOutcomes(auth, record, cookie, header) : ~x.threw}}

\* The records left by running the update of request a and then the update of
\* request b, one after the other, on the store both began with
SerialRecords(a, b) ==
    {Row(UpsertData(p2, b.data)) :
        p2 \in UNION {ResolvedValues(b.auth, Row(UpsertData(p1, a.data)), b.cookie, b.header) :
                        p1 \in ResolvedValues(a.auth, a.storeBefore[a.auth], a.cookie, a.header)}}

\* Two updates of one user that began on the same store and have both
\* completed their upsert
InterleavedUpdates(a, b) ==
    /\ a.kind = "update" /\ b.kind = "update"
    /\ a.pc = "returned" /\ b.pc = "returned"
    /\ isAuthenticated(a.auth) /\ a.auth = b.auth
    /\ a.storeBefore = b.storeBefore

\* C12 (no lost update under concurrency): when two updatePreference calls of
\* one authenticated user interleave and each upsert is atomic, the final
\* record is the record left by running the two updates one after the other
\* in some order.
C12_NoLostUpdate ==
    \A s, t \in DOMAIN reqs :
        (s # t /\ InterleavedUpdates(reqs[s], reqs[t]))
            => store[reqs[s].auth] \in
                  SerialRecords(reqs[s], reqs[t]) \cup SerialRecords(reqs[t], reqs[s])

(* C19 *)

MaxEntries == 2
EntryTags == {"en-GB", "fr", "pt-PT", "pt-BR", "*"}
EntryQualities ==
    {[text |-> "",       numeric |-> TRUE,  milli |-> 1000],
     [text |-> ";q=0.5", numeric |-> TRUE,  milli |-> 500],
     [text |-> ";q=0.9", numeric |-> TRUE,  milli |-> 900],
     [text |-> ";q=x",   numeric |-> FALSE, milli |-> 0]}
Entries == {[tag |-> t, quality |-> q] : t \in EntryTags, q \in EntryQualities}
EntryLists == UNION {[1..n -> Entries] : n \in 0..MaxEntries}

RECURSIVE HeaderText(_)
HeaderText(entries) ==
    IF entries = <<>> THEN ""
    ELSE LET e == Head(entries)
         IN  e.tag \o e.quality.text \o
             (IF Len(entries) > 1 THEN ", " \o HeaderText(Tail(entries)) ELSE "")

NegotiationConfigs == LocaleConfigs \cup {[locales |-> <<"en", "pt-BR">>, default |-> "en"]}

\* generateDefaultPreference is about to run on a request with no header or
\* with a header of the entries drawn
InitNegotiation ==
    /\ \E c \in NegotiationConfigs :
          AVAILABLE_LOCALES = c.locales /\ DEFAULT_LOCALE = c.default
    /\ store = [u \in Users |-> null]
    /\ jar = undefined
    /\ reqs = [s \in Slots |-> Idle]
    /\ \E entries \in EntryLists, sent \in BOOLEAN :
          /\ ~sent => entries = <<>>
          /\ negotiation =
                [NoNegotiation EXCEPT
                    !.pc = "header", !.entries = entries,
                    !.acceptLanguageHeader =
                        IF sent THEN JString(HeaderText(entries)) ELSE undefined]

\* const acceptLanguages = parseAcceptLanguage(acceptLanguageHeader)
ParseHeader ==
    /\ negotiation.pc = "header"
    /\ \E acceptLanguages \in parseAcceptLanguage(negotiation.acceptLanguageHeader) :
          negotiation' = [negotiation EXCEPT !.pc = "parsed",
                                             !.acceptLanguages = acceptLanguages]
    /\ UNCHANGED <<AVAILABLE_LOCALES, DEFAULT_LOCALE, store, jar, reqs>>

\* const dectectedLocale = detectLocale(acceptLanguages)
Detect ==
    /\ negotiation.pc = "parsed"
    /\ LET dectectedLocale == detectLocale(negotiation.acceptLanguages)
       IN  negotiation' =
              IF dectectedLocale = RangeError
              THEN [negotiation EXCEPT !.pc = "threw", !.error = RangeError]
              ELSE [negotiation EXCEPT !.pc = "detected",
                                       !.dectectedLocale = dectectedLocale]
    /\ UNCHANGED <<AVAILABLE_LOCALES, DEFAULT_LOCALE, store, jar, reqs>>

\* return { locale: dectectedLocale || DEFAULT_LOCALE }
ReturnDefault ==
    /\ negotiation.pc = "detected"
    /\ negotiation' =
          [negotiation EXCEPT
              !.pc = "returned",
              !.result = [locale |-> IF negotiation.dectectedLocale = NoLocale
                                     THEN DEFAULT_LOCALE
                                     ELSE negotiation.dectectedLocale]]
    /\ UNCHANGED <<AVAILABLE_LOCALES, DEFAULT_LOCALE, store, jar, reqs>>

NextNegotiation == ParseHeader \/ Detect \/ ReturnDefault

SpecNegotiation == InitNegotiation /\ [][NextNegotiation]_vars

(* C11 *)

\* C11 (a pure read never writes the store): during and after any
\* getPreference call, authenticated or not and whichever source supplied the
\* result, every durable record, absent ones included, is as it was before.
C11_ReadWritesNoRecord ==
    \A s \in Slots :
        LET r == reqs[s]
        IN  r.kind = "get" => (store = r.storeBefore /\ r.storeWrites = 0)

\* A GET of a user without a record has returned a generated default and the
\* user still has no record
C11_Witness ==
    \E s \in Slots :
        LET r == reqs[s]
        IN  /\ r.kind = "get" /\ r.pc = "returned"
            /\ isAuthenticated(r.auth)
            /\ r.cookie = undefined
            /\ r.result = [locale |-> DEFAULT_LOCALE]
            /\ store[r.auth] = null

(* C13 *)

\* The getPreference of this request has ended: it returned, or it raised
\* after the lookup
GetPreferenceRaised(r) == r.pc = "threw" /\ r.error = RangeError
GetPreferenceEnded(r) == GetPreferenceReturned(r) \/ GetPreferenceRaised(r)
GetPreferenceOutcome(r) ==
    IF GetPreferenceRaised(r) THEN Throw(RangeError) ELSE Return(r.preference)

\* A getPreference run with a cookie that fails the schema ends as a run with
\* no cookie may end, with the same cookie write and store accesses, and a
\* stored payload that fails the schema behaves as an absent record
InvalidAsAbsent ==
    \A s \in Slots :
        LET r == reqs[s]
            invalidCookie == r.cookie # undefined /\ ~HoldsPreference(r.cookie)
            invalidRecord == StoredRecord(r) # null /\ ~HoldsPreference(StoredRecord(r).data)
        IN  /\ (GetPreferenceEnded(r) /\ invalidCookie)
                  => GetPreferenceOutcome(r) \in
                        ResolveOutcomes(r.auth, StoredRecord(r), undefined, r.header)
            /\ (GetPreferenceEnded(r) /\ invalidRecord)
                  => GetPreferenceOutcome(r) \in
                        ResolveOutcomes(r.auth, null, r.cookie, r.header)
            /\ (GetPreferenceEnded(r) /\ r.kind = "get" /\ (invalidCookie \/ invalidRecord))
                  => /\ r.storeReads = IF isAuthenticated(r.auth) THEN 1 ELSE 0
                     /\ r.storeWrites = 0
                     /\ r.cookieWrites = IF GetPreferenceRaised(r) THEN <<>>
                                         ELSE <<ToJSON(r.preference)>>
            /\ (r.kind = "get" /\ r.pc = "threw") => r.error \in {"store", RangeError}

\* C13 (invalid data is indistinguishable from absence): getPreference run
\* with a cookie payload that fails the schema has the same return value, the
\* same cookie write and the same store accesses as a run with no cookie, a
\* stored payload that fails the schema behaves as an absent record, and
\* neither case raises an error.
C13_InvalidAsAbsentNoError ==
    /\ InvalidAsAbsent
    /\ \A s \in Slots :
          LET r == reqs[s]
          IN  (\/ r.cookie # undefined /\ ~HoldsPreference(r.cookie)
               \/ StoredRecord(r) # null /\ ~HoldsPreference(StoredRecord(r).data))
                  => ~GetPreferenceRaised(r)

\* A GET whose record fails the schema has returned the valid cookie's value,
\* as it does for a user without a record
InvalidRecordSkipped ==
    \E s \in Slots :
        LET r == reqs[s]
        IN  /\ r.kind = "get" /\ r.pc = "returned"
            /\ StoredRecord(r) = Row(LocalePayload("xx"))
            /\ r.cookie = LocalePayload("en")
            /\ r.header = JString("de;q=x, fr")
            /\ r.result = [locale |-> "en"]

(* C14 *)

\* C14 (sticky anonymous experience): a cookie the engine wrote holds a valid
\* Preference, and an anonymous getPreference that carries the cookie the
\* client was last sent returns the Preference that cookie holds, whatever the
\* Accept-Language header is, and writes the same cookie again.
C14_StickyAnonymous ==
    /\ jar # undefined => HoldsPreference(jar)
    /\ \A s \in Slots :
          LET r == reqs[s]
          IN  (/\ r.kind = "get" /\ r.pc = "returned"
               /\ ~isAuthenticated(r.auth)
               /\ jar # undefined /\ r.cookie = jar)
                  => (r.result = PreferenceHeld(jar) /\ r.cookieWrites = <<jar>>)
    /\ \A s \in Slots :
          LET r == reqs[s]
          IN  (r.kind = "get" /\ ~isAuthenticated(r.auth) /\ HoldsPreference(r.cookie))
                  => r.pc # "threw"

\* An anonymous GET that carried the client's cookie has returned its value
\* under a header that detects another locale
C14_Witness ==
    \E s \in Slots :
        LET r == reqs[s]
        IN  /\ r.kind = "get" /\ r.pc = "returned"
            /\ ~isAuthenticated(r.auth)
            /\ jar = LocalePayload("fr") /\ r.cookie = jar
            /\ r.header = JString("en-GB")
            /\ r.result = [locale |-> "fr"]

(* C15 *)

\* The lookup of this request was rejected
LookupFailed(r) == r.error = "store" /\ r.storeWrites = 0

\* C15 (a store-lookup failure is not swallowed): when findUnique fails in
\* getPreference, or in the resolve step of updatePreference, the call fails
\* with that error, returns no preference, does not fall through to the cookie
\* or the default, and performs no cookie write and no store write.
C15_LookupFailurePropagates ==
    \A s \in Slots :
        LET r == reqs[s]
        IN  LookupFailed(r)
                => /\ r.pc = "threw"
                   /\ r.storeReads = 1
                   /\ r.preference = undefined
                   /\ r.result = undefined
                   /\ r.cookieWrites = <<>>
                   /\ store = r.storeBefore

\* The lookup of an update that carried a valid cookie has failed
C15_Witness ==
    \E s \in Slots :
        LET r == reqs[s]
        IN  /\ r.kind = "update" /\ LookupFailed(r) /\ r.pc = "threw"
            /\ HoldsPreference(r.cookie)
            /\ r.header = JString("en-GB")

(* C20 *)

\* A completed update's last cookie write, return value and durable record
\* agree, and a GET that carries the client's cookie while the caller's record
\* (if any caller) holds the same payload returns that value
C20_State ==
    \A s \in Slots :
        LET r == reqs[s]
        IN  /\ (r.kind = "update" /\ r.pc = "returned")
                  => /\ r.cookieWrites[Len(r.cookieWrites)] = LocalePayload(r.result.locale)
                     /\ isAuthenticated(r.auth) =>
                           store[r.auth] = Row(LocalePayload(r.result.locale))
            /\ (/\ r.kind = "get" /\ r.pc = "returned"
                /\ jar # undefined /\ r.cookie = jar
                /\ isAuthenticated(r.auth) => StoredRecord(r) = Row(jar))
                  => r.result = PreferenceHeld(jar)

\* The response of a completed update leaves the client with the cookie of the
\* returned value, equal to the caller's record
C20_Step ==
    \A s \in Slots :
        LET r == reqs[s]
        IN  (r.kind = "update" /\ r.pc = "returned" /\ reqs'[s].pc = "idle")
                => /\ jar' = LocalePayload(r.result.locale)
                   /\ isAuthenticated(r.auth) => store'[r.auth] = Row(jar')

\* C20 (read-your-writes): after updatePreference completes with no other
\* request in flight, the last cookie written, the returned value and (for an
\* authenticated caller) the durable record are equal, and the next
\* getPreference of the same client carrying that cookie returns that value.
C20_ReadYourWrites == []C20_State /\ [][C20_Step]_vars

\* An authenticated update has returned a locale other than the resolved one
\* and the record holds it
C20_Witness ==
    \E s \in Slots :
        LET r == reqs[s]
        IN  /\ r.kind = "update" /\ r.pc = "returned"
            /\ isAuthenticated(r.auth)
            /\ r.preference = [locale |-> "fr"]
            /\ r.result = [locale |-> "en"]
            /\ store[r.auth] = Row(LocalePayload("en"))

(* C16 *)

\* The base language of a tag: the text before its first "-"
BaseLanguage(tag) == split(tag, "-")[1]

\* The supported locales that share a base language, in declared order
SameBase(base) == SelectSeq(AVAILABLE_LOCALES, LAMBDA l : BaseLanguage(l) = base)

\* What one tag matches: itself, else its base language, else the first
\* supported locale of the same base language, else nothing
TagMatch(tag) ==
    IF isLocale(tag) THEN tag
    ELSE IF isLocale(BaseLanguage(tag)) THEN BaseLanguage(tag)
    ELSE IF SameBase(BaseLanguage(tag)) # <<>> THEN SameBase(BaseLanguage(tag))[1]
    ELSE NoLocale

RECURSIVE FirstMatch(_)
FirstMatch(tags) ==
    IF tags = <<>> THEN NoLocale
    ELSE IF TagMatch(Head(tags)) # NoLocale THEN TagMatch(Head(tags))
    ELSE FirstMatch(Tail(tags))

\* detectLocale has run on the parsed tags
DetectRan == negotiation.pc \in {"detected", "returned", "threw"}

\* C16 (locale detection): detectLocale examines the tags in order and
\* returns the match of the first tag that matches by exact match, then base
\* language, then region fallback; it yields no match only when no tag
\* matches any rule, and then generateDefaultPreference returns the default.
C16_Detection ==
    /\ DetectRan =>
          /\ negotiation.pc # "threw"
          /\ negotiation.dectectedLocale = FirstMatch(negotiation.acceptLanguages)
    /\ (negotiation.pc = "returned" /\ FirstMatch(negotiation.acceptLanguages) = NoLocale)
          => negotiation.result = [locale |-> DEFAULT_LOCALE]

\* Detection agrees with the first match whenever it does not raise
DetectionUnlessRaised ==
    /\ (DetectRan /\ negotiation.pc # "threw")
          => negotiation.dectectedLocale = FirstMatch(negotiation.acceptLanguages)
    /\ (negotiation.pc = "returned" /\ FirstMatch(negotiation.acceptLanguages) = NoLocale)
          => negotiation.result = [locale |-> DEFAULT_LOCALE]

\* The two examples: supported {en, pt-BR} and tag pt-PT, supported {en, fr}
\* and tag pt-BR
RegionFallbackExample ==
    /\ AVAILABLE_LOCALES = <<"en", "pt-BR">>
    /\ negotiation.entries = <<[tag |-> "pt-PT", quality |-> [text |-> "", numeric |-> TRUE, milli |-> 1000]]>>
    /\ negotiation.pc = "returned" /\ negotiation.result = [locale |-> "pt-BR"]
NoMatchExample ==
    /\ AVAILABLE_LOCALES = <<"en", "fr">>
    /\ negotiation.entries = <<[tag |-> "pt-BR", quality |-> [text |-> "", numeric |-> TRUE, milli |-> 1000]]>>
    /\ negotiation.pc = "returned" /\ negotiation.dectectedLocale = NoLocale
    /\ negotiation.result = [locale |-> "fr"]

(* C17 *)

\* The header was parsed
ParseRan == negotiation.pc \in {"parsed", "detected", "returned", "threw"}

\* Every entry of the header carries a numeric quality or none
NumericQualities == \A i \in 1..Len(negotiation.entries) : negotiation.entries[i].quality.numeric

\* The tags are those of the entries, lowercased, by descending quality, the
\* entries of equal quality in header order
StableDescending(tags, entries) ==
    /\ Len(tags) = Len(entries)
    /\ \E p \in [1..Len(entries) -> 1..Len(entries)] :
          /\ \A i, j \in 1..Len(entries) : p[i] = p[j] => i = j
          /\ \A i \in 1..Len(entries) : tags[i] = toLowerCase(entries[p[i]].tag)
          /\ \A i, j \in 1..Len(entries) :
                i < j => \/ entries[p[i]].quality.milli > entries[p[j]].quality.milli
                         \/ /\ entries[p[i]].quality.milli = entries[p[j]].quality.milli
                            /\ p[i] < p[j]

\* C17 (Accept-Language ordering): for a header whose entries carry numeric
\* qualities or none, parseAcceptLanguage returns one lowercased, trimmed tag
\* per entry, by descending quality, entries of equal quality in header
\* order; an absent or empty header yields the empty list.
C17_Ordering ==
    /\ (ParseRan /\ NumericQualities /\ negotiation.entries # <<>>)
          => StableDescending(negotiation.acceptLanguages, negotiation.entries)
    /\ (ParseRan /\ Falsy(negotiation.acceptLanguageHeader))
          => negotiation.acceptLanguages = <<>>

\* "en-GB;q=0.5, fr;q=0.9" was parsed to [fr, en-gb]
C17_Witness ==
    /\ negotiation.acceptLanguageHeader = JString("en-GB;q=0.5, fr;q=0.9")
    /\ negotiation.pc = "parsed"
    /\ negotiation.acceptLanguages = <<"fr", "en-gb">>

(* C18 *)

\* The position of the entry of highest quality, the first of them in header
\* order
TopEntry(entries) ==
    CHOOSE i \in 1..Len(entries) :
        \A j \in 1..Len(entries) :
            \/ entries[i].quality.milli > entries[j].quality.milli
            \/ entries[i].quality.milli = entries[j].quality.milli /\ i <= j

\* C18 (exact match survives the pipeline): for a header whose highest-quality
\* tag is, as sent, exactly a supported locale code, generateDefaultPreference
\* returns that locale, also when the code has an uppercase region subtag and
\* another supported locale of the same base language comes earlier.
C18_ExactMatchSurvives ==
    (/\ ParseRan /\ negotiation.entries # <<>> /\ NumericQualities
     /\ isLocale(negotiation.entries[TopEntry(negotiation.entries)].tag)
     /\ negotiation.pc \in {"returned", "threw"})
        => negotiation.result =
              [locale |-> negotiation.entries[TopEntry(negotiation.entries)].tag]

=============================================================================
